---------------------------- MODULE Spec2Model ----------------------------
(***************************************************************************)
(* The relational schema of the portfolio site (src/schema.ts): eight      *)
(* tables, their column constraints, the relations between them and the    *)
(* insert schemas derived from them.  The declarations are data; what they  *)
(* mean is what the libraries they are handed to do with them: drizzle-zod  *)
(* turns a table into a zod object schema, and the database enforces the    *)
(* column constraints on every INSERT and DELETE.                           *)
(***************************************************************************)
EXTENDS Integers, Sequences, FiniteSets, Bags, TLC

VARIABLES
    entity,      \* validation: the insert schema under test
    candidate,   \* validation: the untyped record handed to safeParse
    result,      \* validation: what safeParse returned
    cluster,     \* store: the group of related tables this session works on
    db,          \* store: table name -> the bag of rows stored
    seq,         \* store: table name -> last value of the table's id sequence
    idLog,       \* store: table name -> ids given to rows, in order of assignment
    clock,       \* store: the database's now()
    pending,     \* store: client -> the INSERT it has in flight
    outcome,     \* store: how the last statement ended
    fetched      \* store: the rows the last statement returned

vars == <<entity, candidate, result, cluster, db, seq, idLog, clock,
          pending, outcome, fetched>>

valVars == <<entity, candidate, result>>
dbVars == <<cluster, db, seq, idLog, clock, pending, outcome, fetched>>

-----------------------------------------------------------------------------
(* Bounds of the exploration. *)

\* the sessions send at most MaxId INSERTs to a table with an id sequence
MaxId == 2

\* the database sessions
Clients == {"c1", "c2"}

-----------------------------------------------------------------------------
(* Values: a JavaScript value is a tag and a payload. *)

Str(s) == [t |-> "string", v |-> s]
Num(n) == [t |-> "number", v |-> n]
Bool(b) == [t |-> "boolean", v |-> b]
Date(n) == [t |-> "date", v |-> n]
Null == [t |-> "null", v |-> 0]

-----------------------------------------------------------------------------
(* Column builders of drizzle-orm/pg-core, as the schema uses them. *)

Column(n, ty) ==
    [name |-> n, dataType |-> ty, notNull |-> FALSE, hasDefault |-> FALSE,
     defaultFn |-> "none", default |-> Null, isUnique |-> FALSE,
     primary |-> FALSE, references |-> <<>>]

text(n) == Column(n, "string")
integer(n) == Column(n, "number")
boolean(n) == Column(n, "boolean")
timestamp(n) == Column(n, "date")
\* serial: an integer column, NOT NULL, whose default is the next value of
\* the table's own sequence
serial(n) ==
    [Column(n, "number") EXCEPT !.notNull = TRUE, !.hasDefault = TRUE,
                                !.defaultFn = "nextval"]

notNull(c) == [c EXCEPT !.notNull = TRUE]
unique(c) == [c EXCEPT !.isUnique = TRUE]
primaryKey(c) == [c EXCEPT !.primary = TRUE, !.notNull = TRUE]
withDefault(c, v) ==
    [c EXCEPT !.hasDefault = TRUE, !.defaultFn = "const", !.default = v]
defaultNow(c) == [c EXCEPT !.hasDefault = TRUE, !.defaultFn = "now"]
references(c, tbl, col) == [c EXCEPT !.references = <<tbl, col>>]

-----------------------------------------------------------------------------
(* The tables. *)

messages ==
    << primaryKey(serial("id")),
       notNull(text("name")),
       notNull(text("email")),
       text("subject"),
       notNull(text("message")),
       defaultNow(notNull(timestamp("createdAt"))) >>

\* users with .unique() left off username
usersNotUnique ==
    << primaryKey(serial("id")),
       notNull(text("username")),
       notNull(text("password")) >>

users ==
    << primaryKey(serial("id")),
       unique(notNull(text("username"))),
       notNull(text("password")) >>

\* projects with .default(false) left off featured
projectsFeaturedNoDefault ==
    << primaryKey(serial("id")),
       notNull(text("title")),
       notNull(text("description")),
       text("image"),
       notNull(text("github")),
       text("liveUrl"),
       boolean("featured"),
       defaultNow(notNull(timestamp("createdAt"))) >>

projects ==
    << primaryKey(serial("id")),
       notNull(text("title")),
       notNull(text("description")),
       text("image"),
       notNull(text("github")),
       text("liveUrl"),
       withDefault(boolean("featured"), Bool(FALSE)),
       defaultNow(notNull(timestamp("createdAt"))) >>

tags ==
    << primaryKey(serial("id")),
       unique(notNull(text("name"))),
       withDefault(text("color"), Str("gray")) >>

\* projectTags with .references() left off tagId
projectTagsNoTagReference ==
    << references(notNull(integer("projectId")), "projects", "id"),
       notNull(integer("tagId")) >>

projectTags ==
    << references(notNull(integer("projectId")), "projects", "id"),
       references(notNull(integer("tagId")), "tags", "id") >>

\* projectTags without its table-level primary key
projectTagsNoPk == {}

\* the table-level primaryKey({ columns: [t.projectId, t.tagId] })
projectTagsPk == {"projectId", "tagId"}

skills ==
    << primaryKey(serial("id")),
       unique(notNull(text("name"))),
       notNull(text("icon")),
       notNull(text("category")),
       text("description"),
       withDefault(integer("order"), Num(0)) >>

experiences ==
    << primaryKey(serial("id")),
       notNull(text("title")),
       notNull(text("subtitle")),
       text("date"),
       notNull(text("type")),
       withDefault(integer("order"), Num(0)) >>

\* experienceDetails with .references() left off experienceId
experienceDetailsNoReference ==
    << primaryKey(serial("id")),
       notNull(integer("experienceId")),
       notNull(text("detail")),
       withDefault(integer("order"), Num(0)) >>

experienceDetails ==
    << primaryKey(serial("id")),
       references(notNull(integer("experienceId")), "experiences", "id"),
       notNull(text("detail")),
       withDefault(integer("order"), Num(0)) >>

Tables ==
    [messages |-> messages, users |-> users, projects |-> projects,
     tags |-> tags, projectTags |-> projectTags, skills |-> skills,
     experiences |-> experiences, experienceDetails |-> experienceDetails]

TableNames == DOMAIN Tables

ColNames(table) == {table[i].name : i \in DOMAIN table}
ColOf(table, n) == table[CHOOSE i \in DOMAIN table : table[i].name = n]

\* the columns that make up each table's primary key
PrimaryKey ==
    [tn \in TableNames |->
        IF tn = "projectTags" THEN projectTagsPk
        ELSE {n \in ColNames(Tables[tn]) : ColOf(Tables[tn], n).primary}]

\* the columns of each table, by name
Columns ==
    [tn \in TableNames |->
        [n \in ColNames(Tables[tn]) |-> ColOf(Tables[tn], n)]]

SerialTables == {tn \in TableNames : "id" \in DOMAIN Columns[tn]}

-----------------------------------------------------------------------------
(* drizzle-zod and zod. *)

\* createInsertSchema with every field optional, as in an update schema
createInsertSchemaAllOptional(table) ==
    [n \in ColNames(table) |->
        LET c == ColOf(table, n)
        IN  [type |-> c.dataType, optional |-> TRUE, nullable |-> ~c.notNull]]

\* createInsertSchema: one field per column; a column that is NOT NULL and
\* has no default is required, any other is optional, and a column that is
\* not NOT NULL also accepts null
createInsertSchema(table) ==
    [n \in ColNames(table) |->
        LET c == ColOf(table, n)
        IN  [type |-> c.dataType,
             optional |-> (~c.notNull) \/ c.hasDefault,
             nullable |-> ~c.notNull]]

\* z.object(...).pick(mask): the fields of the mask, nothing else
pick(schema, mask) == [n \in mask \cap DOMAIN schema |-> schema[n]]

\* insertUserSchema with id picked as well
insertUserSchemaWithId ==
    pick(createInsertSchema(users), {"id", "username", "password"})

\* insertProjectSchema with github left out of the mask
insertProjectSchemaWithoutGithub ==
    pick(createInsertSchema(projects),
         {"title", "description", "image", "liveUrl", "featured"})

\* insertTagSchema with id picked as well
insertTagSchemaWithId ==
    pick(createInsertSchema(tags), {"id", "name", "color"})

insertMessageSchema ==
    pick(createInsertSchema(messages), {"name", "email", "subject", "message"})

insertUserSchema ==
    pick(createInsertSchema(users), {"username", "password"})

insertProjectSchema ==
    pick(createInsertSchema(projects),
         {"title", "description", "image", "github", "liveUrl", "featured"})

insertTagSchema ==
    pick(createInsertSchema(tags), {"name", "color"})

insertProjectTagSchema == createInsertSchema(projectTags)

insertSkillSchema ==
    pick(createInsertSchema(skills),
         {"name", "icon", "category", "description", "order"})

insertExperienceSchema ==
    pick(createInsertSchema(experiences),
         {"title", "subtitle", "date", "type", "order"})

insertExperienceDetailSchema ==
    pick(createInsertSchema(experienceDetails),
         {"experienceId", "detail", "order"})

InsertSchemas ==
    [messages |-> insertMessageSchema, users |-> insertUserSchema,
     projects |-> insertProjectSchema, tags |-> insertTagSchema,
     projectTags |-> insertProjectTagSchema, skills |-> insertSkillSchema,
     experiences |-> insertExperienceSchema,
     experienceDetails |-> insertExperienceDetailSchema]

\* the violations zod reports for one object: a required key that is
\* absent, a null where null is not accepted, a value of another type
Issues(schema, input) ==
    {[path |-> k, code |-> "invalid_type", expected |-> schema[k].type,
      received |-> IF k \in DOMAIN input THEN input[k].t ELSE "undefined"] :
        k \in {f \in DOMAIN schema :
                 IF f \notin DOMAIN input THEN ~schema[f].optional
                 ELSE IF input[f].t = "null" THEN ~schema[f].nullable
                 ELSE input[f].t # schema[f].type}}

\* schema.safeParse(input): the parsed object (unknown keys stripped, absent
\* optional keys left absent) or the list of issues; it does not throw
safeParse(schema, input) ==
    LET issues == Issues(schema, input)
    IN  IF issues = {}
        THEN [success |-> TRUE,
              data |-> [k \in DOMAIN schema \cap DOMAIN input |-> input[k]],
              issues |-> {}]
        ELSE [success |-> FALSE,
              data |-> [k \in {} |-> Null],
              issues |-> issues]

-----------------------------------------------------------------------------
(* Validation at the system boundary: one candidate, one safeParse. *)

Empty == [k \in {} |-> Null]

\* the picked columns a caller has to supply: NOT NULL and no default
RequiredFields(e) ==
    {n \in DOMAIN InsertSchemas[e] :
        Columns[e][n].notNull /\ ~Columns[e][n].hasDefault}

\* the columns the database fills in by itself: the serial id, now()
GeneratedColumns(e) ==
    {n \in DOMAIN Columns[e] :
        Columns[e][n].defaultFn \in {"nextval", "now"}}

\* the columns that carry any server-side default
DefaultedColumns(e) ==
    {n \in DOMAIN Columns[e] : Columns[e][n].hasDefault}

\* sample payloads: one value of the type, one of another type
GoodValue(ty) ==
    CASE ty = "string" -> Str("a")
      [] ty = "number" -> Num(1)
      [] ty = "boolean" -> Bool(TRUE)
      [] OTHER -> Date(1)
WrongValue(ty) == IF ty = "string" THEN Num(1) ELSE Str("a")

\* what a candidate may hold under key n: for a column the database fills
\* in by itself, or a key that is no column, a value of the column's type;
\* for any other column a well-typed value, an ill-typed one or null
ValuesAt(e, n) ==
    IF n \notin DOMAIN Columns[e] THEN {Num(1)}
    ELSE IF n \in GeneratedColumns(e)
    THEN {GoodValue(Columns[e][n].dataType)}
    ELSE {GoodValue(Columns[e][n].dataType),
          WrongValue(Columns[e][n].dataType), Null}

CandidateKeys(e) == DOMAIN Columns[e] \cup {"id"}

Candidates(e) ==
    UNION {{c \in [S -> UNION {ValuesAt(e, n) : n \in S}] :
               \A n \in S : c[n] \in ValuesAt(e, n)} :
           S \in SUBSET CandidateKeys(e)}

IdleStore ==
    /\ cluster = {}
    /\ db = [tn \in TableNames |-> EmptyBag]
    /\ seq = [tn \in SerialTables |-> 0]
    /\ idLog = [tn \in SerialTables |-> <<>>]
    /\ clock = 0
    /\ pending = [c \in Clients |-> <<>>]
    /\ outcome = "none"
    /\ fetched = <<>>

InitValidate ==
    /\ entity \in TableNames
    /\ candidate \in Candidates(entity)
    /\ result = <<>>
    /\ IdleStore

Validate ==
    /\ result = <<>>
    /\ result' = <<safeParse(InsertSchemas[entity], candidate)>>
    /\ UNCHANGED <<entity, candidate, dbVars>>

NextValidate == Validate

SpecValidate == InitValidate /\ [][NextValidate]_vars

-----------------------------------------------------------------------------
(* The store: what the database does with the declared constraints. *)

\* tables that a foreign key ties together, directly or through a third
Linked(a, b) ==
    \E i \in DOMAIN Tables[a] :
        Tables[a][i].references # <<>> /\ Tables[a][i].references[1] = b

RECURSIVE ClusterOf(_)
ClusterOf(S) ==
    LET N == S \cup {b \in TableNames :
                        \E a \in S : Linked(a, b) \/ Linked(b, a)}
    IN  IF N = S THEN S ELSE ClusterOf(N)

Clusters == {ClusterOf({tn}) : tn \in TableNames}

\* what the sessions put under column n of an INSERT
FieldChoices(tn, n) ==
    LET c == Columns[tn][n]
    IN  IF c.references # <<>> THEN {Num(i) : i \in 1..MaxId}
        ELSE IF c.isUnique THEN {Str("a"), Str("b")}
        ELSE IF c.dataType = "string" THEN {Str("a")}
        ELSE IF c.dataType = "boolean" THEN {Bool(TRUE)}
        ELSE {Num(1)}

\* the records the sessions submit for table tn: the required fields alone
\* or with every optional one, and possibly an id of their own choosing
RawInputs ==
    [tn \in TableNames |->
        UNION {{c \in [S -> UNION {FieldChoices(tn, n) : n \in S}] :
                   \A n \in S : c[n] \in FieldChoices(tn, n)} :
               S \in {R \in SUBSET DOMAIN Columns[tn] :
                        /\ RequiredFields(tn) \subseteq R
                        /\ "createdAt" \notin R
                        /\ R \ (RequiredFields(tn) \cup {"id"})
                              \in {{}, DOMAIN InsertSchemas[tn]
                                          \ RequiredFields(tn)}}}]

\* what reaches the database: a record is parsed with the table's insert
\* schema, and the parsed value is what is inserted
Validated ==
    [tn \in TableNames |->
        {safeParse(InsertSchemas[tn], raw).data :
            raw \in {x \in RawInputs[tn] :
                        safeParse(InsertSchemas[tn], x).success}}]

\* the rows of a table
Rows(tn) == BagToSet(db[tn])

\* the value a column takes when the INSERT does not name it
DefaultValue(tn, c) ==
    CASE c.defaultFn = "nextval" -> Num(seq[tn] + 1)
      [] c.defaultFn = "now" -> Date(clock)
      [] c.defaultFn = "const" -> c.default
      [] OTHER -> Null

\* whether an INSERT of vals reads the clock
ReadsClock(tn, vals) ==
    \E n \in DOMAIN Columns[tn] \ DOMAIN vals :
        Columns[tn][n].defaultFn = "now"

\* the row an INSERT of vals builds: the values given, defaults elsewhere
BuildRow(tn, vals) ==
    [n \in DOMAIN Columns[tn] |->
        IF n \in DOMAIN vals THEN vals[n]
        ELSE DefaultValue(tn, Columns[tn][n])]

\* NOT NULL
NotNullViolated(tn, row) ==
    \E n \in DOMAIN Columns[tn] :
        Columns[tn][n].notNull /\ row[n] = Null

\* UNIQUE columns and the primary key
UniqueViolated(tn, row) ==
    \/ \E n \in DOMAIN Columns[tn] :
          /\ Columns[tn][n].isUnique
          /\ row[n] # Null
          /\ \E r \in Rows(tn) : r[n] = row[n]
    \/ /\ PrimaryKey[tn] # {}
       /\ \E r \in Rows(tn) : \A k \in PrimaryKey[tn] : r[k] = row[k]

\* REFERENCES: the referenced row has to exist
ForeignKeyViolated(tn, row) ==
    \E n \in DOMAIN Columns[tn] :
        LET ref == Columns[tn][n].references
        IN  /\ ref # <<>>
            /\ row[n] # Null
            /\ ~\E r \in Rows(ref[1]) : r[ref[2]] = row[n]

InsertViolation(tn, row) ==
    IF NotNullViolated(tn, row) THEN "not_null_violation"
    ELSE IF UniqueViolated(tn, row) THEN "unique_violation"
    ELSE IF ForeignKeyViolated(tn, row) THEN "foreign_key_violation"
    ELSE "none"

\* REFERENCES without onDelete is NO ACTION: a row that another row
\* references cannot be deleted
StillReferenced(tn, row) ==
    \E t2 \in TableNames : \E i \in DOMAIN Tables[t2] :
        LET ref == Tables[t2][i].references
        IN  /\ ref # <<>>
            /\ ref[1] = tn
            /\ \E r \in Rows(t2) : r[Tables[t2][i].name] = row[ref[2]]

\* the ways of listing the rows of S one after the other
RECURSIVE Orderings(_)
Orderings(S) ==
    IF S = {} THEN {<<>>}
    ELSE UNION {{<<r>> \o o : o \in Orderings(S \ {r})} : r \in S}

\* the relation without its join columns: every detail row
DetailsOfAny(e) == Rows("experienceDetails")

\* experiencesRelations / experienceDetailsRelations: the details of an
\* experience are the rows whose experienceId is its id
DetailsOf(e) ==
    {d \in Rows("experienceDetails") : d["experienceId"] = e["id"]}

Store ==
    /\ db = [tn \in TableNames |-> EmptyBag]
    /\ seq = [tn \in SerialTables |-> 0]
    /\ idLog = [tn \in SerialTables |-> <<>>]
    /\ clock = 0
    /\ pending = [c \in Clients |-> <<>>]
    /\ outcome = "none"
    /\ fetched = <<>>
    /\ entity = "none"
    /\ candidate = Empty
    /\ result = <<>>

InitStore == cluster \in Clusters /\ Store

\* a session sends INSERT INTO tn with a validated record: the database
\* evaluates the defaults of the columns left out; no two statements read
\* the same time off the clock
BeginInsert(c, tn, vals) ==
    LET row == BuildRow(tn, vals)
    IN  /\ pending[c] = <<>>
        /\ tn \in SerialTables => Len(idLog[tn]) < MaxId
        /\ pending' = [pending EXCEPT ![c] = <<[table |-> tn, row |-> row]>>]
        /\ seq' = IF tn \in SerialTables /\ "id" \notin DOMAIN vals
                  THEN [seq EXCEPT ![tn] = @ + 1]
                  ELSE seq
        /\ idLog' = IF tn \in SerialTables
                    THEN [idLog EXCEPT ![tn] = Append(@, row["id"].v)]
                    ELSE idLog
        /\ clock' = IF ReadsClock(tn, vals) THEN clock + 1 ELSE clock
        /\ UNCHANGED <<cluster, db, outcome, fetched, valVars>>

\* the database checks the constraints and stores the row or rejects it
CompleteInsert(c) ==
    /\ pending[c] # <<>>
    /\ LET tn == pending[c][1].table
           row == pending[c][1].row
           v == InsertViolation(tn, row)
       IN  /\ db' = IF v = "none"
                    THEN [db EXCEPT ![tn] = @ (+) SetToBag({row})]
                    ELSE db
           /\ outcome' = IF v = "none" THEN "ok" ELSE v
    /\ pending' = [pending EXCEPT ![c] = <<>>]
    /\ fetched' = <<>>
    /\ UNCHANGED <<cluster, seq, idLog, clock, valVars>>

\* what one INSERT statement, run from start to end with no other statement
\* in between, does: the row it builds, how it ends, and the table, the
\* sequence and the log of ids it leaves
InsertEffect(tn, vals) ==
    LET row == BuildRow(tn, vals)
        v == InsertViolation(tn, row)
    IN  [row |-> row,
         outcome |-> IF v = "none" THEN "ok" ELSE v,
         db |-> IF v = "none"
                THEN [db EXCEPT ![tn] = @ (+) SetToBag({row})]
                ELSE db,
         seq |-> IF tn \in SerialTables /\ "id" \notin DOMAIN vals
                 THEN [seq EXCEPT ![tn] = @ + 1]
                 ELSE seq,
         idLog |-> IF tn \in SerialTables
                   THEN [idLog EXCEPT ![tn] = Append(@, row["id"].v)]
                   ELSE idLog]

Insert(tn, vals) ==
    /\ tn \in SerialTables => Len(idLog[tn]) < MaxId
    /\ LET e == InsertEffect(tn, vals)
       IN  /\ db' = e.db
           /\ outcome' = e.outcome
           /\ seq' = e.seq
           /\ idLog' = e.idLog
    /\ clock' = IF ReadsClock(tn, vals) THEN clock + 1 ELSE clock
    /\ fetched' = <<>>
    /\ UNCHANGED <<cluster, pending, valVars>>

\* DELETE of one row
Delete(tn, row) ==
    /\ row \in Rows(tn)
    /\ IF StillReferenced(tn, row)
       THEN /\ outcome' = "foreign_key_violation"
            /\ UNCHANGED db
       ELSE /\ outcome' = "ok"
            /\ db' = [db EXCEPT ![tn] = @ (-) SetToBag({row})]
    /\ fetched' = <<>>
    /\ UNCHANGED <<cluster, seq, idLog, clock, pending, valVars>>

\* the relational query for one experience with its details; the relation
\* names the join columns and no ordering, so the rows come in any order
LoadDetails(e) ==
    /\ e \in Rows("experiences")
    /\ \E rows \in Orderings(DetailsOf(e)) :
          fetched' = <<[of |-> e["id"], rows |-> rows]>>
    /\ outcome' = "ok"
    /\ UNCHANGED <<cluster, db, seq, idLog, clock, pending, valVars>>

Next ==
    \/ \E tn \in cluster : \E vals \in Validated[tn] : Insert(tn, vals)
    \/ \E tn \in cluster : \E row \in Rows(tn) : Delete(tn, row)
    \/ \E e \in Rows("experiences") : LoadDetails(e)

Spec == InitStore /\ [][Next]_vars

\* two sessions whose INSERTs into one table overlap; the table is one that
\* refers to no other
InitRace ==
    /\ Store
    /\ \E tn \in TableNames :
          /\ cluster = {tn}
          /\ \A i \in DOMAIN Tables[tn] : Tables[tn][i].references = <<>>

NextRace ==
    \/ \E c \in Clients : \E tn \in cluster : \E vals \in Validated[tn] :
          BeginInsert(c, tn, vals)
    \/ \E c \in Clients : CompleteInsert(c)
    \/ \E tn \in cluster : \E row \in Rows(tn) : Delete(tn, row)

SpecRace == InitRace /\ [][NextRace]_vars

-----------------------------------------------------------------------------
(* The properties. *)

\* the fields section 3 of the specification calls required, per entity
RequiredInsertable ==
    [messages |-> {"name", "email", "message"},
     users |-> {"username", "password"},
     projects |-> {"title", "description", "github"},
     tags |-> {"name"},
     projectTags |-> {"projectId", "tagId"},
     skills |-> {"name", "icon", "category"},
     experiences |-> {"title", "subtitle", "type"},
     experienceDetails |-> {"experienceId", "detail"}]

WellTyped(e, c) ==
    \A n \in DOMAIN c :
        n \in DOMAIN Columns[e] /\ c[n].t = Columns[e][n].dataType

\* C1: for every entity, a candidate holding exactly the required insertable
\* fields, each well typed, passes the insert schema, and the validated
\* value is the input: same keys, same values, nothing added.
C1_ExactRequiredAccepted ==
    /\ RequiredFields(entity) = RequiredInsertable[entity]
    /\ ( /\ result # <<>>
         /\ DOMAIN candidate = RequiredInsertable[entity]
         /\ WellTyped(entity, candidate) )
       => /\ result[1].success
          /\ result[1].data = candidate
          /\ result[1].issues = {}

C1_Witness ==
    /\ result # <<>>
    /\ entity = "projects"
    /\ DOMAIN candidate = {"title", "description", "github"}
    /\ WellTyped(entity, candidate)
    /\ result[1].success

\* C2: for every entity and every required field f of its insertable shape,
\* a candidate that lacks f fails validation, the failure is a returned
\* result carrying a list of violations, and one of the violations names f.
C2_MissingRequiredReported ==
    result # <<>> =>
        \A f \in RequiredFields(entity) \ DOMAIN candidate :
            /\ ~result[1].success
            /\ \E i \in result[1].issues :
                  i.path = f /\ i.received = "undefined"

C2_Witness ==
    /\ result # <<>>
    /\ \E f \in RequiredFields(entity) :
          /\ DOMAIN candidate = RequiredFields(entity) \ {f}
          /\ WellTyped(entity, candidate)
          /\ ~result[1].success
          /\ {i.path : i \in result[1].issues} = {f}

\* C3 as first stated: the insertable shape is a strict subset of the
\* persisted shape's fields and holds neither the identity column nor any
\* column with a server-side default, so that no validated value carries
\* id, createdAt, featured, color or order.
C3_NoDefaultedFieldSettable ==
    (result # <<>> /\ result[1].success) =>
        /\ DOMAIN InsertSchemas[entity] \subseteq DOMAIN Columns[entity]
        /\ DOMAIN InsertSchemas[entity] # DOMAIN Columns[entity]
        /\ DOMAIN InsertSchemas[entity] \cap DefaultedColumns(entity) = {}
        /\ DOMAIN result[1].data
              \cap {"id", "createdAt", "featured", "color", "order"} = {}

\* C3, amended: the insertable shape is a subset of the persisted shape's
\* fields (a strict one for every entity but ProjectTag, whose insert schema
\* takes both columns) that holds neither the identity column nor createdAt:
\* a caller cannot set id or createdAt through an insert schema.  The
\* columns with a constant default (featured, color, order) are fields of
\* the insertable shape, optional ones, and a caller can set them.
C3_NoGeneratedFieldSettable ==
    /\ DOMAIN InsertSchemas[entity] \subseteq DOMAIN Columns[entity]
    /\ entity # "projectTags" =>
          DOMAIN InsertSchemas[entity] # DOMAIN Columns[entity]
    /\ DOMAIN InsertSchemas[entity] \cap {"id", "createdAt"} = {}
    /\ \A n \in DOMAIN Columns[entity] \cap {"featured", "color", "order"} :
          n \in DOMAIN InsertSchemas[entity] /\ InsertSchemas[entity][n].optional
    /\ (result # <<>> /\ result[1].success) =>
          /\ DOMAIN result[1].data \subseteq DOMAIN Columns[entity]
          /\ DOMAIN result[1].data \cap {"id", "createdAt"} = {}
          /\ \A n \in DOMAIN candidate \cap DOMAIN Columns[entity]
                        \cap {"featured", "color", "order"} :
                n \in DOMAIN result[1].data /\ result[1].data[n] = candidate[n]

C3_Witness ==
    /\ result # <<>>
    /\ result[1].success
    /\ entity = "projects"
    /\ {"id", "createdAt", "featured"} \subseteq DOMAIN candidate
    /\ "featured" \in DOMAIN result[1].data
    /\ "id" \notin DOMAIN result[1].data

\* the INSERTs the sessions can send in the current state
Insertable(tn) ==
    IF tn \in cluster /\ (tn \in SerialTables => Len(idLog[tn]) < MaxId)
    THEN Validated[tn]
    ELSE {}

\* the rows a table holds in e.db and not before
AddedBy(e, tn) == BagToSet(e.db[tn]) \ Rows(tn)

DefaultsAppliedBy(tn, vals) ==
    LET e == InsertEffect(tn, vals)
    IN  e.outcome = "ok" =>
          /\ AddedBy(e, tn) = {e.row}
          /\ \A n \in DOMAIN vals : e.row[n] = vals[n]
          /\ (tn = "projects" /\ "featured" \notin DOMAIN vals)
                => e.row["featured"] = Bool(FALSE)
          /\ (tn = "projects" /\ "liveUrl" \notin DOMAIN vals)
                => e.row["liveUrl"] = Null
          /\ (tn = "tags" /\ "color" \notin DOMAIN vals)
                => e.row["color"] = Str("gray")
          /\ ( /\ tn \in {"experiences", "skills", "experienceDetails"}
               /\ "order" \notin DOMAIN vals )
                => e.row["order"] = Num(0)
          /\ tn \in {"projects", "messages"}
                => e.row["createdAt"] = Date(clock)

\* C4: defaults are applied at insertion: a Project inserted without
\* featured is stored with featured = false, a Tag without color with
\* color = "gray", an Experience, Skill or ExperienceDetail without order
\* with order = 0; a Project or Message is stored with createdAt set, and a
\* Project inserted without liveUrl has liveUrl = null.
C4_DefaultsApplied ==
    \A tn \in TableNames : \A vals \in Insertable(tn) :
        DefaultsAppliedBy(tn, vals)

C4_Witness ==
    /\ outcome = "ok"
    /\ \E r \in Rows("projects") :
          /\ r["featured"] = Bool(FALSE)
          /\ r["liveUrl"] = Null
          /\ r["createdAt"].t = "date"
    /\ \E r \in Rows("tags") : r["color"] = Str("gray")

UniqueIn(tn, col) ==
    /\ \A r \in Rows(tn) : CopiesIn(r, db[tn]) = 1
    /\ \A r1, r2 \in Rows(tn) : r1[col] = r2[col] => r1 = r2

\* session c's INSERT ends in this step
Completes(c) == pending[c] # <<>> /\ pending'[c] = <<>>

DuplicateRejected(c, tn, col) ==
    ( /\ Completes(c)
      /\ pending[c][1].table = tn
      /\ \E r \in Rows(tn) : r[col] = pending[c][1].row[col] )
    => (db' = db /\ outcome' = "unique_violation")

\* C5: after any sequence of inserts, two that race on the same value
\* included, no two User rows share a username and no two Tag rows a name:
\* an insert whose username (or tag name) is that of an existing row fails
\* with a constraint violation and leaves the table unchanged.
C5_UniqueNames ==
    /\ [](UniqueIn("users", "username") /\ UniqueIn("tags", "name"))
    /\ [][\A c \in Clients :
             /\ DuplicateRejected(c, "users", "username")
             /\ DuplicateRejected(c, "tags", "name")]_vars

\* the INSERT that drew id 1 lost to the one that drew id 2
C5_Witness ==
    /\ outcome = "unique_violation"
    /\ idLog["users"] = <<1, 2>>
    /\ \A c \in Clients : pending[c] = <<>>
    /\ \E r \in Rows("users") : r["id"] = Num(2)

Exists(tn, col, v) == \E r \in Rows(tn) : r[col] = v

ProjectTagsReferToRows ==
    \A pt \in Rows("projectTags") :
        /\ Exists("projects", "id", pt["projectId"])
        /\ Exists("tags", "id", pt["tagId"])

DanglingProjectTagRejected(vals) ==
    ( \/ ~Exists("projects", "id", vals["projectId"])
      \/ ~Exists("tags", "id", vals["tagId"]) )
    => LET e == InsertEffect("projectTags", vals)
       IN  e.db = db /\ e.outcome = "foreign_key_violation"

\* C6: in every reachable state, whatever Project, Tag and ProjectTag rows
\* were inserted and deleted, each ProjectTag row's projectId is the id of
\* an existing Project and its tagId the id of an existing Tag; inserting a
\* ProjectTag whose projectId or tagId matches no row fails with a
\* constraint violation.
C6_ProjectTagsReferToRows ==
    /\ ProjectTagsReferToRows
    /\ \A vals \in Insertable("projectTags") : DanglingProjectTagRejected(vals)

C6_Witness ==
    /\ outcome = "foreign_key_violation"
    /\ Rows("projectTags") # {}
    /\ Cardinality(Rows("projects")) = 2

SamePair(r, vals) ==
    r["projectId"] = vals["projectId"] /\ r["tagId"] = vals["tagId"]

PairInsert(vals) ==
    LET e == InsertEffect("projectTags", vals)
    IN  IF \E r \in Rows("projectTags") : SamePair(r, vals)
        THEN e.db = db /\ e.outcome = "unique_violation"
        ELSE ( /\ Exists("projects", "id", vals["projectId"])
               /\ Exists("tags", "id", vals["tagId"]) )
             => /\ e.outcome = "ok"
                /\ \E r \in AddedBy(e, "projectTags") : SamePair(r, vals)

\* C7: the table of ProjectTag rows holds at most one row per (projectId,
\* tagId) pair: inserting a pair that is present fails with a constraint
\* violation and leaves the table unchanged, while the same projectId with
\* another tagId, and the same tagId with another projectId, is accepted.
C7_OneRowPerPair ==
    /\ \A r \in Rows("projectTags") : CopiesIn(r, db["projectTags"]) = 1
    /\ \A vals \in Insertable("projectTags") : PairInsert(vals)

C7_Witness ==
    /\ outcome = "unique_violation"
    /\ \E r1, r2 \in Rows("projectTags") :
          r1["projectId"] = r2["projectId"] /\ r1["tagId"] # r2["tagId"]
    /\ \E r1, r2 \in Rows("projectTags") :
          r1["tagId"] = r2["tagId"] /\ r1["projectId"] # r2["projectId"]

DetailsReferToRows ==
    \A d \in Rows("experienceDetails") :
        Exists("experiences", "id", d["experienceId"])

OrphanDetailRejected(vals) ==
    ~Exists("experiences", "id", vals["experienceId"])
    => LET e == InsertEffect("experienceDetails", vals)
       IN  e.db = db /\ e.outcome = "foreign_key_violation"

\* C8: in every reachable state, whatever Experience and ExperienceDetail
\* rows were inserted and deleted, each ExperienceDetail row's experienceId
\* is the id of an existing Experience: no detail is inserted for a missing
\* Experience, and deleting an Experience leaves none of its details behind.
C8_DetailsReferToRows ==
    /\ DetailsReferToRows
    /\ \A vals \in Insertable("experienceDetails") : OrphanDetailRejected(vals)

\* an Experience that has a detail was not deleted
C8_Witness ==
    /\ outcome = "foreign_key_violation"
    /\ Len(idLog["experienceDetails"]) = 1
    /\ Rows("experienceDetails") # {}
    /\ DetailsReferToRows

RowsOf(f) == {f.rows[i] : i \in DOMAIN f.rows}

ExactlyTheDetails(f) ==
    /\ RowsOf(f) = {d \in Rows("experienceDetails") : d["experienceId"] = f.of}
    /\ Cardinality(RowsOf(f)) = Len(f.rows)

Before(a, b) ==
    \/ a["order"].v < b["order"].v
    \/ a["order"].v = b["order"].v /\ a["id"].v < b["id"].v

\* C9 as first stated: the details of an Experience retrieved through the
\* relation are exactly the rows whose experienceId is its id, in ascending
\* order of the order field, ties broken by ascending id.
C9_DetailsInOrder ==
    fetched # <<>> =>
        /\ ExactlyTheDetails(fetched[1])
        /\ \A i, j \in DOMAIN fetched[1].rows :
              i < j => Before(fetched[1].rows[i], fetched[1].rows[j])

\* C9, amended: the details of an Experience retrieved through the relation
\* are exactly the rows whose experienceId is its id, each once, whatever
\* the order of their insertion; the relation fixes no order among them.
C9_ExactlyTheDetails ==
    fetched # <<>> => ExactlyTheDetails(fetched[1])

C9_Witness ==
    /\ fetched # <<>>
    /\ Len(fetched[1].rows) = 2
    /\ Cardinality(Rows("experiences")) = 2

Increasing(log) == \A i, j \in DOMAIN log : i < j => log[i] < log[j]

IdsFromSequence(tn) ==
    /\ Increasing(idLog[tn])
    /\ \A r \in Rows(tn) :
          /\ CopiesIn(r, db[tn]) = 1
          /\ \E i \in DOMAIN idLog[tn] : idLog[tn][i] = r["id"].v
    /\ \A r1, r2 \in Rows(tn) : r1["id"] = r2["id"] => r1 = r2

IdsKept(tn) ==
    /\ \A r \in Rows(tn) :
          \/ r \in BagToSet(db'[tn])
          \/ \A r2 \in BagToSet(db'[tn]) : r2["id"] # r["id"]
    /\ \A r \in BagToSet(db'[tn]) \ Rows(tn) :
          \A i \in DOMAIN idLog[tn] : r["id"].v > idLog[tn][i]
    /\ \A i \in DOMAIN idLog[tn] :
          i \in DOMAIN idLog'[tn] /\ idLog'[tn][i] = idLog[tn][i]

\* C10: in each table with a surrogate id, ids are assigned at insertion in
\* strictly increasing order and are never reused or changed: over any
\* sequence of inserts and deletes, inserts rejected by a constraint
\* included, a newly inserted row's id is greater than the id of every row
\* inserted before it in that table, and an existing row's id never changes.
C10_IdsIncreaseAndStay ==
    /\ [](\A tn \in SerialTables : IdsFromSequence(tn))
    /\ [][\A tn \in SerialTables : IdsKept(tn)]_vars

\* id 1 went to a row that is not in the table (its INSERT was rejected, or
\* the row was deleted) and the next row was given id 2, not 1 again
C10_Witness ==
    /\ idLog["experienceDetails"] = <<1, 2>>
    /\ seq["experiences"] = 1
    /\ \E r \in Rows("experienceDetails") :
          r["id"] = Num(2) /\ r["experienceId"] = Num(1)
    /\ \E r \in Rows("experiences") : r["id"] = Num(1)
    /\ Cardinality(Rows("experienceDetails")) = 1

=============================================================================
